---- MODULE Spec2Model ----
(***************************************************************************)
(* Model of Home.py, the HDFC statement analyser: load_data,               *)
(* preprocess_data (field coercion, narration classification, cumulative   *)
(* sums), display_metrics, display_charts, filter_by_date,                 *)
(* display_additional_insights and the main execution block.               *)
(*                                                                         *)
(* Text is modelled character by character: a Python str is a sequence of  *)
(* one-character strings.  Amounts are integers (minor units).             *)
(***************************************************************************)
EXTENDS Integers, Sequences, FiniteSets, TLC

VARIABLES
    uploaded_file,  \* the sheet as pd.read_excel reads it: a sequence of rows
    df,             \* raw_df / processed_df (one object, mutated in place)
    pc,             \* position in the main execution block
    out,            \* what the st.* calls have rendered so far
    err             \* TRUE once st.error has reported an exception

vars == <<uploaded_file, df, pc, out, err>>

----------------------------------------------------------------------------
(* Python str primitives *)

StartsWith(s, p) == Len(s) >= Len(p) /\ SubSeq(s, 1, Len(p)) = p

Contains(s, p) == \E i \in 1..(Len(s) - Len(p) + 1) : SubSeq(s, i, i + Len(p) - 1) = p

\* index of the first occurrence of character c in s, 0 when there is none
RECURSIVE FindChar(_, _, _)
FindChar(s, c, i) ==
    IF i > Len(s) THEN 0
    ELSE IF s[i] = c THEN i
    ELSE FindChar(s, c, i + 1)

\* s.split(c) for a one-character separator: never empty, keeps empty fields
RECURSIVE Split(_, _)
Split(s, c) ==
    LET i == FindChar(s, c, 1) IN
    IF i = 0 THEN <<s>>
    ELSE <<SubSeq(s, 1, i - 1)>> \o Split(SubSeq(s, i + 1, Len(s)), c)

RECURSIVE LStrip(_)
LStrip(s) == IF s # <<>> /\ Head(s) = " " THEN LStrip(Tail(s)) ELSE s

RECURSIVE RStrip(_)
RStrip(s) == IF s # <<>> /\ s[Len(s)] = " " THEN RStrip(SubSeq(s, 1, Len(s) - 1)) ELSE s

\* s.strip()
Strip(s) == RStrip(LStrip(s))

\* sep.join(parts)
RECURSIVE Join(_, _)
Join(parts, sep) ==
    IF parts = <<>> THEN <<>>
    ELSE IF Len(parts) = 1 THEN parts[1]
    ELSE parts[1] \o sep \o Join(Tail(parts), sep)

\* values a classifier call can produce: a str, np.nan, or a raised exception
StrVal(s) == [k |-> "str", v |-> s]
NaN == [k |-> "nan", v |-> <<>>]
Raised == [k |-> "raise", v |-> <<>>]

\* parts[i] with Python indexing (0-based, negative from the end); IndexError when out of range
PyIndex(parts, i) ==
    LET j == IF i >= 0 THEN i + 1 ELSE Len(parts) + i + 1 IN
    IF j >= 1 /\ j <= Len(parts) THEN StrVal(parts[j]) ELSE Raised

\* v.strip() applied to an indexing result
StripVal(x) == IF x.k = "str" THEN StrVal(Strip(x.v)) ELSE x

UPI_PREFIX == <<"U", "P", "I", "-">>
POS_PREFIX == <<"P", "O", "S">>
RTGS == <<"R", "T", "G", "S">>
NEFT == <<"N", "E", "F", "T">>
CASH_PREFIX == <<"C", "A", "S", "H", " ", "D", "E", "P", "O", "S", "I", "T", " ", "B", "Y">>

----------------------------------------------------------------------------
(* extract_upi_name, extract_upi_description *)

\* which branch of extract_upi_name's if/elif chain runs
name_branch(upi_string) ==
    IF StartsWith(upi_string, UPI_PREFIX) THEN "UPI"
    ELSE IF StartsWith(upi_string, POS_PREFIX) THEN "POS"
    ELSE IF Contains(upi_string, RTGS) \/ Contains(upi_string, NEFT) THEN "Wire"
    ELSE IF StartsWith(upi_string, CASH_PREFIX) THEN "Cash"
    ELSE "Fallback"

\* mutant: the POS branch indexes parts[2] without the length guard
extract_upi_name_unguarded(upi_string) ==
    LET b == name_branch(upi_string) IN
    CASE b = "UPI" ->
           IF Contains(upi_string, <<"-">>) THEN PyIndex(Split(upi_string, "-"), 1) ELSE NaN
      [] b = "POS" -> PyIndex(Split(upi_string, " "), 2)
      [] b = "Wire" ->
           LET parts == Split(upi_string, "-") IN
           IF Len(parts) > 2 THEN PyIndex(parts, 2) ELSE NaN
      [] b = "Cash" ->
           LET parts == Split(upi_string, "-") IN
           IF Len(parts) > 1 THEN StripVal(PyIndex(parts, 1)) ELSE NaN
      [] OTHER -> NaN

extract_upi_name(upi_string) ==
    LET b == name_branch(upi_string) IN
    CASE b = "UPI" ->
           IF Contains(upi_string, <<"-">>) THEN PyIndex(Split(upi_string, "-"), 1) ELSE NaN
      [] b = "POS" ->
           LET parts == Split(upi_string, " ") IN
           IF Len(parts) > 2 THEN PyIndex(parts, 2) ELSE NaN
      [] b = "Wire" ->
           LET parts == Split(upi_string, "-") IN
           IF Len(parts) > 2 THEN PyIndex(parts, 2) ELSE NaN
      [] b = "Cash" ->
           LET parts == Split(upi_string, "-") IN
           IF Len(parts) > 1 THEN StripVal(PyIndex(parts, 1)) ELSE NaN
      [] OTHER -> NaN

\* which branch of extract_upi_description's if/elif chain runs (it has no UPI branch)
desc_branch(upi_string) ==
    IF StartsWith(upi_string, POS_PREFIX) THEN "POS"
    ELSE IF Contains(upi_string, RTGS) \/ Contains(upi_string, NEFT) THEN "Wire"
    ELSE IF StartsWith(upi_string, CASH_PREFIX) THEN "Cash"
    ELSE "Else"

extract_upi_description(upi_string) ==
    LET b == desc_branch(upi_string) IN
    CASE b = "POS" ->
           LET parts == Split(upi_string, " ") IN
           IF Len(parts) > 2 THEN StrVal(Join(SubSeq(parts, 3, Len(parts)), <<" ">>)) ELSE NaN
      [] b = "Wire" ->
           LET parts == Split(upi_string, "-") IN
           IF Len(parts) > 2 THEN PyIndex(parts, -2) ELSE PyIndex(parts, -1)
      [] b = "Cash" ->
           LET parts == Split(upi_string, "-") IN
           IF Len(parts) > 2 THEN StripVal(PyIndex(parts, -1)) ELSE NaN
      [] OTHER -> PyIndex(Split(upi_string, "-"), -1)

----------------------------------------------------------------------------
(* Cells of the sheet and the coercions of load_data / preprocess_data *)

\* a cell: missing (NaN), a number, or text
NanCell == [t |-> "nan", n |-> 0, s |-> <<>>]
NumCell(x) == [t |-> "num", n |-> x, s |-> <<>>]
TextCell(x) == [t |-> "str", n |-> 0, s |-> x]

\* a row of the sheet maps its column positions 0..6 to cells; a missing cell
\* (NaN) has no entry
cell_at(row, c) == IF c \in DOMAIN row THEN row[c] ELSE NanCell

\* the row holding the seven cells given
RowOf(cells) == [c \in {i \in 0..(Len(cells) - 1) : cells[i + 1].t # "nan"} |-> cells[c + 1]]

\* df.fillna(0) on one cell
fillna0(c) == IF c.t = "nan" THEN NumCell(0) ELSE c

Digits == <<"0", "1", "2", "3", "4", "5", "6", "7", "8", "9">>

IsDigit(c) == \E d \in 1..10 : Digits[d] = c

DigitVal(c) == (CHOOSE d \in 1..10 : Digits[d] = c) - 1

AllDigits(s) == s # <<>> /\ \A i \in 1..Len(s) : IsDigit(s[i])

\* int(s) for a string of decimal digits
RECURSIVE ParseInt(_)
ParseInt(s) ==
    IF s = <<>> THEN 0
    ELSE 10 * ParseInt(SubSeq(s, 1, Len(s) - 1)) + DigitVal(s[Len(s)])

\* str(n) for n >= 0
RECURSIVE IntToStr(_)
IntToStr(n) ==
    IF n < 10 THEN <<Digits[n + 1]>>
    ELSE IntToStr(n \div 10) \o <<Digits[(n % 10) + 1]>>

\* pd.to_numeric(col, errors='coerce').fillna(0) on one cell
to_numeric_fillna(c) ==
    IF c.t = "num" THEN c.n
    ELSE IF c.t = "str" /\ AllDigits(c.s) THEN ParseInt(c.s)
    ELSE 0

\* col.astype(str) on one cell
astype_str(c) ==
    IF c.t = "str" THEN c.s
    ELSE IF c.t = "num" THEN IntToStr(c.n)
    ELSE <<"n", "a", "n">>

\* a Timestamp, or NaT
NaT == [k |-> "nat", y |-> 0, m |-> 0, d |-> 0]
Timestamp(y, m, d) == [k |-> "ts", y |-> y, m |-> m, d |-> d]

IsLeap(y) == (y % 4 = 0 /\ y % 100 # 0) \/ y % 400 = 0

DaysInMonth(y, m) ==
    IF m = 2 THEN (IF IsLeap(y) THEN 29 ELSE 28)
    ELSE IF m \in {4, 6, 9, 11} THEN 30
    ELSE 31

DaysBeforeMonth == <<0, 31, 59, 90, 120, 151, 181, 212, 243, 273, 304, 334>>

\* proleptic Gregorian day number of a Timestamp
Ordinal(ts) ==
    LET y1 == ts.y - 1 IN
    365 * y1 + (y1 \div 4) - (y1 \div 100) + (y1 \div 400)
      + DaysBeforeMonth[ts.m] + (IF ts.m > 2 /\ IsLeap(ts.y) THEN 1 ELSE 0) + ts.d

\* pd.to_datetime(cell, format='%d/%m/%y', errors='coerce')
to_datetime(c) ==
    IF c.t # "str" THEN NaT
    ELSE
      LET f == Split(c.s, "/") IN
      IF Len(f) # 3 THEN NaT
      ELSE IF ~(AllDigits(f[1]) /\ Len(f[1]) <= 2 /\ AllDigits(f[2]) /\ Len(f[2]) <= 2
                /\ AllDigits(f[3]) /\ Len(f[3]) = 2) THEN NaT
      ELSE
        LET d == ParseInt(f[1])
            m == ParseInt(f[2])
            yy == ParseInt(f[3])
            y == IF yy < 69 THEN 2000 + yy ELSE 1900 + yy
        IN IF m >= 1 /\ m <= 12 /\ d >= 1 /\ d <= DaysInMonth(y, m)
           THEN Timestamp(y, m, d) ELSE NaT

MonthAbbr == <<<<"J", "a", "n">>, <<"F", "e", "b">>, <<"M", "a", "r">>, <<"A", "p", "r">>, <<"M", "a", "y">>, <<"J", "u", "n">>, <<"J", "u", "l">>, <<"A", "u", "g">>, <<"S", "e", "p">>, <<"O", "c", "t">>, <<"N", "o", "v">>, <<"D", "e", "c">>>>

MonthName == <<"January", "February", "March", "April", "May", "June", "July", "August", "September", "October", "November", "December">>

Pad2(n) == IF n < 10 THEN <<"0">> \o IntToStr(n) ELSE IntToStr(n)

\* Series.dt.strftime('%d-%b-%Y') on one value (NaT gives NaN)
strftime_dbY(ts) ==
    IF ts.k = "nat" THEN NaN
    ELSE StrVal(Pad2(ts.d) \o <<"-">> \o MonthAbbr[ts.m] \o <<"-">> \o IntToStr(ts.y))

\* Series.dt.strftime('%B') and ('%Y') on one value (NaT gives NaN)
strftime_B(ts) == IF ts.k = "nat" THEN [k |-> "nan", v |-> ""] ELSE [k |-> "str", v |-> MonthName[ts.m]]

strftime_Y(ts) == IF ts.k = "nat" THEN NaN ELSE StrVal(IntToStr(ts.y))

\* Narration.str.split('@').str[0]
upis_of(narration) == Split(narration, "@")[1]

\* Narration.str.extract(r'@(.*?)-'): the text between the first '@' and the next '-'
upi_bank_of(narration) ==
    LET a == FindChar(narration, "@", 1) IN
    IF a = 0 THEN NaN
    ELSE LET rest == SubSeq(narration, a + 1, Len(narration))
             h == FindChar(rest, "-", 1)
         IN IF h = 0 THEN NaN ELSE StrVal(SubSeq(rest, 1, h - 1))

----------------------------------------------------------------------------
(* load_data *)

HEADER_ROWS == 21
FOOTER_ROWS == 18

\* pd.read_excel: the rows of sheet 0 under a RangeIndex 0..R-1
read_excel(file) == [i \in 1..Len(file) |-> [idx |-> i - 1, cells |-> file[i]]]

\* mutant: the footer slice keeps one boilerplate row too many
iloc_window_short_footer(rows) == SubSeq(rows, HEADER_ROWS + 1, Len(rows) - FOOTER_ROWS + 1)

\* df.iloc[21:-18]
iloc_window(rows) == SubSeq(rows, HEADER_ROWS + 1, Len(rows) - FOOTER_ROWS)

\* df.drop(df.columns[[0, 2]], axis=1) and the rename of the five columns left
drop_columns(r) ==
    [idx |-> r.idx, Narration |-> cell_at(r.cells, 1), Date |-> cell_at(r.cells, 3),
     Withdrawal |-> cell_at(r.cells, 4), Deposited |-> cell_at(r.cells, 5),
     Balance |-> cell_at(r.cells, 6)]

\* df.fillna(0) on one row
fillna_row(r) ==
    [idx |-> r.idx, Narration |-> fillna0(r.Narration), Date |-> fillna0(r.Date),
     Withdrawal |-> fillna0(r.Withdrawal), Deposited |-> fillna0(r.Deposited),
     Balance |-> fillna0(r.Balance)]

\* load_data(file): ok = FALSE when df.index[1] raises IndexError
load_data(file) ==
    LET win == iloc_window(read_excel(file)) IN
    IF Len(win) < 2 THEN [ok |-> FALSE, df |-> <<>>]
    ELSE LET label == win[2].idx
             kept == SelectSeq(win, LAMBDA r : r.idx # label)
         IN [ok |-> TRUE, df |-> [i \in 1..Len(kept) |-> fillna_row(drop_columns(kept[i]))]]

----------------------------------------------------------------------------
(* preprocess_data *)

RECURSIVE SumSeq(_)
SumSeq(xs) == IF xs = <<>> THEN 0 ELSE xs[1] + SumSeq(Tail(xs))

\* mutant: the running sum leaves the current row out
RECURSIVE cumsum_exclusive(_)
cumsum_exclusive(xs) ==
    IF xs = <<>> THEN <<>>
    ELSE LET p == cumsum_exclusive(SubSeq(xs, 1, Len(xs) - 1))
         IN Append(p, IF p = <<>> THEN 0 ELSE p[Len(p)] + xs[Len(xs) - 1])

\* Series.cumsum()
RECURSIVE cumsum(_)
cumsum(xs) ==
    IF xs = <<>> THEN <<>>
    ELSE LET p == cumsum(SubSeq(xs, 1, Len(xs) - 1))
         IN Append(p, (IF p = <<>> THEN 0 ELSE p[Len(p)]) + xs[Len(xs)])

\* the column assignments of preprocess_data on one row
coerce_row(r) ==
    LET date == to_datetime(r.Date)
        narration == astype_str(r.Narration)
        upis == upis_of(narration)
    IN [Date |-> date,
        Date_Formated |-> strftime_dbY(date),
        Withdrawal |-> to_numeric_fillna(r.Withdrawal),
        Deposited |-> to_numeric_fillna(r.Deposited),
        Balance |-> to_numeric_fillna(r.Balance),
        Narration |-> narration,
        UPIs |-> upis,
        UPI_Name |-> extract_upi_name(upis),
        UPI_Bank |-> upi_bank_of(narration),
        UPI_Description |-> extract_upi_description(narration)]

\* preprocess_data(df): the columns of every row, the index reset to 1..n,
\* and the two cumulative columns
preprocess_data(d) ==
    LET cw == cumsum([i \in 1..Len(d) |-> to_numeric_fillna(d[i].Withdrawal)])
        cd == cumsum([i \in 1..Len(d) |-> to_numeric_fillna(d[i].Deposited)])
    IN [i \in 1..Len(d) |->
          coerce_row(d[i])
            @@ [idx |-> i, Cumulative_Withdrawal |-> cw[i], Cumulative_Deposited |-> cd[i]]]

\* an apply() of preprocess_data raised on some row
apply_raised(d) ==
    \E i \in 1..Len(d) : d[i].UPI_Name.k = "raise" \/ d[i].UPI_Description.k = "raise"

----------------------------------------------------------------------------
(* queries of display_metrics, filter_by_date, display_additional_insights *)

Withdrawals(d) == [i \in 1..Len(d) |-> d[i].Withdrawal]
Deposits(d) == [i \in 1..Len(d) |-> d[i].Deposited]
Labels(d) == [i \in 1..Len(d) |-> d[i].idx]

\* (end_date - start_date).days
days_between(start_date, end_date) == Ordinal(end_date) - Ordinal(start_date)

\* mutant: the averages are computed without the days > 0 guard (ZeroDivisionError at days = 0)
display_metrics_unguarded(d) ==
    LET start_date == d[1].Date
        end_date == d[Len(d)].Date
    IN IF start_date.k = "nat" \/ end_date.k = "nat" THEN [ok |-> FALSE, shown |-> <<>>]
       ELSE LET days == days_between(start_date, end_date)
                total_withdrawal == SumSeq(Withdrawals(d))
                total_deposit == SumSeq(Deposits(d))
            IN IF days = 0 THEN [ok |-> FALSE, shown |-> <<>>]
               ELSE [ok |-> TRUE,
                     shown |-> <<[start_date |-> start_date, end_date |-> end_date, days |-> days,
                                 total_withdrawal |-> total_withdrawal, total_deposit |-> total_deposit,
                                 opening |-> d[1].Balance, closing |-> d[Len(d)].Balance,
                                 count |-> Len(d),
                                 avg_per_day |-> <<total_withdrawal, days>>,
                                 avg_per_month |-> <<total_withdrawal * 30, days>>]>>]

\* display_metrics(df): ok = FALSE when NaT arithmetic / NaT.strftime raises
display_metrics(d) ==
    LET start_date == d[1].Date
        end_date == d[Len(d)].Date
    IN IF start_date.k = "nat" \/ end_date.k = "nat" THEN [ok |-> FALSE, shown |-> <<>>]
       ELSE LET days == days_between(start_date, end_date)
                total_withdrawal == SumSeq(Withdrawals(d))
                total_deposit == SumSeq(Deposits(d))
            IN [ok |-> TRUE,
                shown |-> <<[start_date |-> start_date, end_date |-> end_date, days |-> days,
                            total_withdrawal |-> total_withdrawal, total_deposit |-> total_deposit,
                            opening |-> d[1].Balance, closing |-> d[Len(d)].Balance,
                            count |-> Len(d),
                            \* averages as fractions <<numerator, denominator>>; absent unless days > 0
                            avg_per_day |-> IF days > 0 THEN <<total_withdrawal, days>> ELSE <<>>,
                            avg_per_month |-> IF days > 0 THEN <<total_withdrawal * 30, days>> ELSE <<>>]>>]

\* df['Date'].dt.date == x (NaT compares unequal)
date_eq(ts, x) == ts.k = "ts" /\ Ordinal(ts) = Ordinal(x)

\* mutant: the range mask excludes the end date
in_range_open_end(ts, start_date, end_date) ==
    ts.k = "ts" /\ Ordinal(ts) >= Ordinal(start_date) /\ Ordinal(ts) < Ordinal(end_date)

\* (df['Date'].dt.date >= start_date) & (df['Date'].dt.date <= end_date); NaT compares False
in_range(ts, start_date, end_date) ==
    ts.k = "ts" /\ Ordinal(ts) >= Ordinal(start_date) /\ Ordinal(ts) <= Ordinal(end_date)

\* the table of the rows a filter kept, with the two totals rendered under it
filtered(sel) ==
    [rows |-> Labels(sel), withdrawal |-> SumSeq(Withdrawals(sel)), deposited |-> SumSeq(Deposits(sel))]

\* df['Month'] = ..., df['Year'] = ...
tag_month_year(d) ==
    [i \in 1..Len(d) |-> d[i] @@ [Month |-> strftime_B(d[i].Date), Year |-> strftime_Y(d[i].Date)]]

\* mutant: the grouping column is UPI_Name
group_key_by_name(r) == r.UPI_Name

\* the grouping column of df.groupby('UPIs')
group_key(r) == StrVal(r.UPIs)

\* the keys of the groupby: NaN keys are dropped (dropna=True)
group_keys(d) == {group_key(d[i]) : i \in 1..Len(d)} \ {NaN}

\* the sum of Withdrawal over the rows of one group
group_sum(d, key) == SumSeq(Withdrawals(SelectSeq(d, LAMBDA r : group_key(r) = key)))

\* a set of [key, sum] records as a sequence in descending order of sum
\* (the order among equal sums is not modelled)
sort_desc(G) ==
    CHOOSE s \in [1..Cardinality(G) -> G] :
        /\ \A i, j \in 1..Cardinality(G) : i # j => s[i] # s[j]
        /\ \A i, j \in 1..Cardinality(G) : i < j => s[i].sum >= s[j].sum

\* df.groupby('UPIs')['Withdrawal'].sum().sort_values(ascending=False)
upi_group(d) == sort_desc({[key |-> k, sum |-> group_sum(d, k)] : k \in group_keys(d)})

MaxOf(xs) == CHOOSE m \in {xs[i] : i \in 1..Len(xs)} : \A i \in 1..Len(xs) : xs[i] <= m

\* df['Withdrawal'].idxmax(): the label of the first row holding the maximum
idxmax(d) ==
    LET m == MaxOf(Withdrawals(d))
        i == CHOOSE i \in 1..Len(d) : d[i].Withdrawal = m /\ \A j \in 1..(i - 1) : d[j].Withdrawal # m
    IN d[i].idx

\* mutant: the table is rendered without the maximum > 0 guard
highest_transaction_unguarded(d) == IF d # <<>> THEN <<idxmax(d)>> ELSE <<>>

\* the "Highest Amount Spent in One Transaction" table: rendered only when the maximum is > 0
highest_transaction(d) ==
    IF d # <<>> /\ MaxOf(Withdrawals(d)) > 0 THEN <<idxmax(d)>> ELSE <<>>

\* df.groupby("Date")['Withdrawal'].sum(): one [date, sum] per distinct date, NaT dropped
daily_withdrawal(d) ==
    LET dates == {d[i].Date : i \in {j \in 1..Len(d) : d[j].Date.k = "ts"}}
    IN {[date |-> x, sum |-> SumSeq(Withdrawals(SelectSeq(d, LAMBDA r : r.Date = x)))] : x \in dates}

\* "Highest Spending in a Day": idxmax over the date-sorted groups is the earliest day of maximal sum
max_withdrawal_day(d) ==
    LET daily == daily_withdrawal(d) IN
    IF daily = {} THEN <<>>
    ELSE LET best == CHOOSE g \in daily :
                        /\ \A h \in daily : h.sum <= g.sum
                        /\ \A h \in daily : h.sum = g.sum => Ordinal(g.date) <= Ordinal(h.date)
         IN <<[max_day |-> best.date, max_amount |-> best.sum]>>

----------------------------------------------------------------------------
(* Inputs *)

\* the largest sheet considered, in rows
MaxRows == 43

BoilerRow == RowOf(<<TextCell(<<"H">>), NanCell, NanCell, NanCell, NanCell, NanCell, NanCell>>)

SeparatorRow ==
    RowOf(<<NanCell, TextCell(<<"*">>), NanCell, TextCell(<<"*">>), TextCell(<<"*">>),
            TextCell(<<"*">>), TextCell(<<"*">>)>>)

\* Date cells: two valid days and the 31st of February
DateCells == <<TextCell(<<"0", "1", "/", "0", "1", "/", "2", "4">>), TextCell(<<"0", "2", "/", "0", "1", "/", "2", "4">>), TextCell(<<"3", "1", "/", "0", "2", "/", "2", "4">>)>>

\* Narration with Withdrawal, Deposited, Balance cells
EntryCells ==
    << <<TextCell(<<"U", "P", "I", "-", "a", "@", "b", "-", "x">>), NumCell(5), NanCell, NumCell(9)>>,
       <<TextCell(<<"N", "E", "F", "T", "-", "a", "-", "b">>), TextCell(<<"1", "2">>), NanCell, NumCell(7)>>,
       <<NanCell, TextCell(<<"1", "x">>), TextCell(<<"2">>), TextCell(<<"x">>)>> >>

NumDataRows == Len(EntryCells) * Len(DateCells)

\* the j-th transaction row a sheet may hold
DataRow(j) ==
    LET e == EntryCells[((j - 1) \div Len(DateCells)) + 1]
        dc == DateCells[((j - 1) % Len(DateCells)) + 1]
    IN RowOf(<<NanCell, e[1], NanCell, dc, e[2], e[3], e[4]>>)

\* a sheet of R rows laid out as the export is: 21 boilerplate rows, the first
\* transaction, the separator row, the other transactions, 18 boilerplate rows
Sheet(R, pick) ==
    [i \in 1..R |->
        IF i = HEADER_ROWS + 1 /\ i <= R - FOOTER_ROWS THEN DataRow(pick[1])
        ELSE IF i = HEADER_ROWS + 2 /\ i <= R - FOOTER_ROWS THEN SeparatorRow
        ELSE IF i > HEADER_ROWS + 2 /\ i <= R - FOOTER_ROWS THEN DataRow(pick[i - HEADER_ROWS - 1])
        ELSE BoilerRow]

\* how many transaction rows a sheet of R rows holds
DataCount(R) ==
    LET n == R - HEADER_ROWS - FOOTER_ROWS IN
    IF n < 1 THEN 0 ELSE IF n = 1 THEN 1 ELSE n - 1

\* the dates the Start Date / End Date widgets are set to
DateInputs == {Timestamp(2024, 1, 1), Timestamp(2024, 1, 2)}

NothingShown ==
    [metrics |-> <<>>, charts |-> <<>>, day |-> <<>>, month |-> <<>>, range |-> <<>>,
     upi_group |-> <<>>, highest |-> <<>>, max_day |-> <<>>]

----------------------------------------------------------------------------
(* The main execution block: one action per call inside the try *)

Init ==
    /\ \E R \in 0..MaxRows : \E pick \in [1..DataCount(R) -> 1..NumDataRows] :
         uploaded_file = Sheet(R, pick)
    /\ df = <<>>
    /\ pc = "load_data"
    /\ out = NothingShown
    /\ err = FALSE

\* except Exception as e: st.error(...)
Fail ==
    /\ pc' = "error"
    /\ err' = TRUE
    /\ UNCHANGED <<uploaded_file, df, out>>

LoadData ==
    /\ pc = "load_data"
    /\ \E r \in {load_data(uploaded_file)} :
       IF r.ok
       THEN /\ df' = r.df
            /\ pc' = "preprocess_data"
            /\ UNCHANGED <<uploaded_file, out, err>>
       ELSE Fail

PreprocessData ==
    /\ pc = "preprocess_data"
    /\ \E r \in {preprocess_data(df)} :
       IF ~apply_raised(r)
       THEN /\ df' = r
            /\ pc' = "display_metrics"
            /\ UNCHANGED <<uploaded_file, out, err>>
       ELSE Fail

DisplayMetrics ==
    /\ pc = "display_metrics"
    /\ \E r \in {display_metrics(df)} :
       IF r.ok
       THEN /\ out' = [out EXCEPT !.metrics = r.shown]
            /\ pc' = "display_charts"
            /\ UNCHANGED <<uploaded_file, df, err>>
       ELSE Fail

\* the charts of either radio selection read df and write nothing
DisplayCharts ==
    /\ pc = "display_charts"
    /\ \E transaction_type \in {"Withdrawal", "Deposited"} :
         out' = [out EXCEPT !.charts = <<"rendered">>]
    /\ pc' = "filter_by_date"
    /\ UNCHANGED <<uploaded_file, df, err>>

FilterByDate ==
    /\ pc = "filter_by_date"
    /\ \E tagged \in {tag_month_year(df)} :
       \* the Select Date, Select Month and Select Year widgets are left at their defaults
       \* (the first row's date, the first entries of Month.unique() and Year.unique());
       \* the Start Date and End Date widgets are set by the user
       \E selected_date \in {df[1].Date}, selected_month \in {tagged[1].Month},
          selected_year \in {tagged[1].Year},
          start_date \in DateInputs, end_date \in DateInputs :
         /\ df' = tagged
         /\ out' = [out EXCEPT
                !.day = <<[selected_date |-> selected_date]
                            @@ filtered(SelectSeq(df, LAMBDA r : date_eq(r.Date, selected_date)))>>,
                !.month = <<[selected_month |-> selected_month, selected_year |-> selected_year]
                            @@ filtered(SelectSeq(tagged, LAMBDA r : r.Month.k = "str" /\ r.Month = selected_month
                                                         /\ r.Year.k = "str" /\ r.Year = selected_year))>>,
                !.range = <<[start_date |-> start_date, end_date |-> end_date]
                            @@ filtered(SelectSeq(tagged, LAMBDA r : in_range(r.Date, start_date, end_date)))>>]
    /\ pc' = "display_additional_insights"
    /\ UNCHANGED <<uploaded_file, err>>

DisplayAdditionalInsights ==
    /\ pc = "display_additional_insights"
    /\ out' = [out EXCEPT !.upi_group = upi_group(df),
                          !.highest = highest_transaction(df),
                          !.max_day = max_withdrawal_day(df)]
    /\ pc' = "done"
    /\ UNCHANGED <<uploaded_file, df, err>>

Next ==
    \/ LoadData
    \/ PreprocessData
    \/ DisplayMetrics
    \/ DisplayCharts
    \/ FilterByDate
    \/ DisplayAdditionalInsights

Spec == Init /\ [][Next]_vars

----------------------------------------------------------------------------
(* The classifier on arbitrary narrations: sheets of two transactions that   *)
(* carry the same narration, run through load_data and preprocess_data      *)

\* the longest narration considered, in chunks
MaxChunks == 4

Chunks ==
    <<UPI_PREFIX, POS_PREFIX, CASH_PREFIX, NEFT, RTGS, <<"-">>, <<" ">>, <<"@">>, <<"a">>>>

RECURSIVE Concat(_)
Concat(pieces) == IF pieces = <<>> THEN <<>> ELSE pieces[1] \o Concat(Tail(pieces))

NarrationOf(pick) == Concat([i \in 1..Len(pick) |-> Chunks[pick[i]]])

NarrationSheet(narration) ==
    [i \in 1..(HEADER_ROWS + 3 + FOOTER_ROWS) |->
        IF i = HEADER_ROWS + 1
          THEN RowOf(<<NanCell, TextCell(narration), NanCell, DateCells[1], NumCell(5), NanCell, NumCell(9)>>)
        ELSE IF i = HEADER_ROWS + 2 THEN SeparatorRow
        ELSE IF i = HEADER_ROWS + 3
          THEN RowOf(<<NanCell, TextCell(narration), NanCell, DateCells[2], NanCell, NumCell(3), NumCell(7)>>)
        ELSE BoilerRow]

InitClassify ==
    /\ \E k \in 0..MaxChunks : \E pick \in [1..k -> 1..Len(Chunks)] :
         uploaded_file = NarrationSheet(NarrationOf(pick))
    /\ df = <<>>
    /\ pc = "load_data"
    /\ out = NothingShown
    /\ err = FALSE

NextClassify ==
    \/ LoadData
    \/ PreprocessData

SpecClassify == InitClassify /\ [][NextClassify]_vars

----------------------------------------------------------------------------
(* Properties *)

\* preprocess_data has returned the ledger
Built == df # <<>> /\ "Cumulative_Withdrawal" \in DOMAIN df[1]

FirstDate == df[1].Date
LastDate == df[Len(df)].Date

\* C1: in every built ledger the cumulative columns are running sums seeded at
\* zero: row 1 holds its own amount, row i holds row i-1's cumulative value plus
\* its own amount, for Withdrawal and for Deposited.
C1_RunningSum ==
    Built =>
      \A i \in 1..Len(df) :
        /\ df[i].Cumulative_Withdrawal
             = (IF i = 1 THEN 0 ELSE df[i - 1].Cumulative_Withdrawal) + df[i].Withdrawal
        /\ df[i].Cumulative_Deposited
             = (IF i = 1 THEN 0 ELSE df[i - 1].Cumulative_Deposited) + df[i].Deposited

C1_Witness ==
    /\ Built
    /\ Len(df) >= 3
    /\ df[1].Withdrawal > 0 /\ df[2].Withdrawal > 0 /\ df[3].Deposited > 0
    /\ df[2].Cumulative_Withdrawal = df[1].Withdrawal + df[2].Withdrawal

\* the range filter was run over the statement period
FullPeriodSelected ==
    /\ out.range # <<>>
    /\ out.range[1].start_date = FirstDate
    /\ out.range[1].end_date = LastDate

\* every row is dated, between the first row's date and the last row's date
AllRowsInPeriod ==
    \A i \in 1..Len(df) :
      /\ df[i].Date.k = "ts"
      /\ Ordinal(FirstDate) <= Ordinal(df[i].Date)
      /\ Ordinal(df[i].Date) <= Ordinal(LastDate)

\* C2 as stated: for all ledgers, the range filter from the first row's date to
\* the last row's date sums Withdrawal to the statement's total withdrawal and
\* leaves no row out.
C2_AllLedgers ==
    FullPeriodSelected =>
      /\ out.range[1].withdrawal = out.metrics[1].total_withdrawal
      /\ out.range[1].rows = Labels(df)

\* C2 amended: the same, for the ledgers whose rows are all dated between the
\* first row's date and the last row's date.
C2_LedgersInPeriod ==
    (FullPeriodSelected /\ AllRowsInPeriod) =>
      /\ out.range[1].withdrawal = out.metrics[1].total_withdrawal
      /\ out.range[1].rows = Labels(df)

C2_Witness ==
    /\ FullPeriodSelected
    /\ AllRowsInPeriod
    /\ Len(df) >= 3
    /\ FirstDate # LastDate
    /\ df[Len(df)].Withdrawal > 0
    /\ df[1].Withdrawal > 0

\* C3: the sums of the counterparty grouping add up to the statement's total
\* withdrawal, and every transaction's key is the key of exactly one group.
C3_GroupSumsAddUp ==
    pc = "done" =>
      /\ SumSeq([g \in 1..Len(out.upi_group) |-> out.upi_group[g].sum])
           = out.metrics[1].total_withdrawal
      /\ \A i \in 1..Len(df) :
           Cardinality({g \in 1..Len(out.upi_group) :
                          out.upi_group[g].key = StrVal(df[i].UPIs)}) = 1

C3_Witness ==
    /\ pc = "done"
    /\ Len(df) >= 3
    /\ Len(out.upi_group) = 2
    /\ \A g \in 1..2 : out.upi_group[g].sum > 0
    /\ \E i, j \in 1..Len(df) :
         i # j /\ df[i].UPIs = df[j].UPIs /\ df[i].Withdrawal > 0 /\ df[j].Withdrawal > 0

\* the first rule of the order UPI, POS, Wire, Cash deposit, Fallback whose test
\* matches the narration
FirstMatchingRule(narration) ==
    IF StartsWith(narration, UPI_PREFIX) THEN "UPI"
    ELSE IF StartsWith(narration, POS_PREFIX) THEN "POS"
    ELSE IF Contains(narration, RTGS) \/ Contains(narration, NEFT) THEN "Wire"
    ELSE IF StartsWith(narration, CASH_PREFIX) THEN "Cash"
    ELSE "Fallback"

\* C4: counterparty_name and description of a transaction are produced by the
\* same rule, the first of UPI, POS, Wire, Cash deposit, Fallback that matches
\* the narration (the description of a UPI or Fallback narration comes from no
\* POS, Wire or Cash branch).
C4_FirstMatchWins ==
    Built =>
      \A i \in 1..Len(df) :
        LET rule == FirstMatchingRule(df[i].Narration) IN
        /\ name_branch(df[i].UPIs) = rule
        /\ desc_branch(df[i].Narration) = (IF rule \in {"UPI", "Fallback"} THEN "Else" ELSE rule)

\* C5: for a narration that contains RTGS or NEFT and begins with neither UPI-
\* nor POS, counterparty_name is the third '-'-field of the whole narration when
\* it has three fields, and absent otherwise.
C5_WireNameFromNarration ==
    Built =>
      \A i \in 1..Len(df) :
        LET narration == df[i].Narration
            fields == Split(narration, "-")
        IN ( /\ Contains(narration, RTGS) \/ Contains(narration, NEFT)
             /\ ~StartsWith(narration, UPI_PREFIX)
             /\ ~StartsWith(narration, POS_PREFIX) )
           => df[i].UPI_Name = (IF Len(fields) >= 3 THEN StrVal(fields[3]) ELSE NaN)

\* C6: classification never raises: preprocess_data completes on every
\* narration, UPI_Name and UPI_Description are each a text or absent, and two
\* rows with the same narration get the same pair.
C6_NeverRaises ==
    /\ pc # "error"
    /\ pc # "load_data" /\ pc # "preprocess_data" =>
         /\ Built
         /\ \A i \in 1..Len(df) :
              /\ df[i].UPI_Name.k \in {"str", "nan"}
              /\ df[i].UPI_Description.k \in {"str", "nan"}
         /\ \A i, j \in 1..Len(df) :
              df[i].Narration = df[j].Narration =>
                /\ df[i].UPI_Name = df[j].UPI_Name
                /\ df[i].UPI_Description = df[j].UPI_Description

C6_Witness ==
    /\ Built
    /\ pc = "display_metrics"
    /\ df[1].Narration \in {<<>>, UPI_PREFIX, POS_PREFIX, CASH_PREFIX}
    /\ df[1].UPI_Name.k = "nan"

\* the sheet has the rows load_data needs
Loadable == load_data(uploaded_file).ok

\* some transaction row of the sheet has a Date that does not parse or an
\* amount that is not a number
HasBadField ==
    \E r \in {load_data(uploaded_file).df[i] : i \in 1..Len(load_data(uploaded_file).df)} :
      \/ to_datetime(r.Date) = NaT
      \/ \E c \in {r.Withdrawal, r.Deposited, r.Balance} : c.t = "str" /\ ~AllDigits(c.s)

\* C7: a run over a sheet with an unparsable date or a non-numeric amount in
\* some row reports no error, and its ledger has one transaction per source
\* row, the bad date undated and the bad amount 0.
C7_CoercionNeverAborts ==
    (Loadable /\ HasBadField) =>
      /\ ~err
      /\ Built =>
           /\ Len(df) = Len(load_data(uploaded_file).df)
           /\ \A i \in 1..Len(df) :
                LET r == load_data(uploaded_file).df[i] IN
                /\ to_datetime(r.Date) = NaT => df[i].Date = NaT
                /\ (r.Withdrawal.t = "str" /\ ~AllDigits(r.Withdrawal.s)) => df[i].Withdrawal = 0
                /\ (r.Deposited.t = "str" /\ ~AllDigits(r.Deposited.s)) => df[i].Deposited = 0
                /\ (r.Balance.t = "str" /\ ~AllDigits(r.Balance.s)) => df[i].Balance = 0

\* the index labels of rows[21 : R-18] without the window's row at index 1
WindowLabels(R) == [i \in 1..(R - 40) |-> IF i = 1 THEN 21 ELSE 21 + i]

\* load_data returned exactly the rows of the sheet under those labels
LoadedWindow ==
    /\ Labels(df) = WindowLabels(Len(uploaded_file))
    /\ \A i \in 1..Len(df) :
         LET cells == uploaded_file[df[i].idx + 1] IN
         /\ df[i].Narration = fillna0(cell_at(cells, 1))
         /\ df[i].Date = fillna0(cell_at(cells, 3))
         /\ df[i].Withdrawal = fillna0(cell_at(cells, 4))
         /\ df[i].Deposited = fillna0(cell_at(cells, 5))
         /\ df[i].Balance = fillna0(cell_at(cells, 6))

\* the run ended in one reported error, with no ledger and nothing rendered
FailedAtLoad == pc = "error" /\ err /\ df = <<>> /\ out = NothingShown

\* C8 as stated: extraction fails when R < 40; for R >= 40 it yields
\* rows[21 : R-18] minus the window's row at index 1.
C8_FailsBelow40 ==
    pc # "load_data" =>
      IF Len(uploaded_file) < 40 THEN FailedAtLoad
      ELSE /\ ~FailedAtLoad
           /\ pc = "preprocess_data" => LoadedWindow

\* C8 amended: extraction fails when R <= 40 (the window has no row at index 1
\* to drop); for R >= 41 it yields rows[21 : R-18] minus the window's row at
\* index 1.
C8_FailsBelow41 ==
    pc # "load_data" =>
      IF Len(uploaded_file) < 41 THEN FailedAtLoad
      ELSE /\ ~FailedAtLoad
           /\ pc = "preprocess_data" => LoadedWindow

C8_Witness ==
    /\ pc = "preprocess_data"
    /\ Len(uploaded_file) = 43
    /\ Labels(df) = <<21, 23, 24>>

\* the ledger is built, display_metrics has run, and the first and last rows
\* carry the same date
ZeroDaySummary ==
    /\ Built
    /\ pc # "display_metrics"
    /\ FirstDate.k = "ts"
    /\ FirstDate = LastDate

\* C9 as stated: over a statement spanning 0 days the summary fails: an error
\* is reported and no summary is rendered.
C9_ZeroDaysFails == ZeroDaySummary => (err /\ out.metrics = <<>>)

\* C9 amended: over a statement spanning 0 days the summary is rendered
\* without an error and without its two averages.
C9_ZeroDaysOmitsAverages ==
    ZeroDaySummary =>
      /\ ~err
      /\ out.metrics # <<>>
      /\ out.metrics[1].days = 0
      /\ out.metrics[1].avg_per_day = <<>>
      /\ out.metrics[1].avg_per_month = <<>>

C9_Witness ==
    /\ ZeroDaySummary
    /\ Len(df) >= 2
    /\ out.metrics # <<>>
    /\ out.metrics[1].total_withdrawal > 0

\* the insights have run on a ledger in which every withdrawal is 0
AllZeroInsights ==
    /\ pc = "done"
    /\ \A i \in 1..Len(df) : df[i].Withdrawal = 0

\* the earliest date of the ledger
EarliestDate ==
    CHOOSE x \in {df[i].Date : i \in {j \in 1..Len(df) : df[j].Date.k = "ts"}} :
      \A i \in 1..Len(df) : df[i].Date.k = "ts" => Ordinal(x) <= Ordinal(df[i].Date)

\* C10 as stated: on a ledger where every withdrawal is 0 the extremum queries
\* fail: an error is reported, no transaction and no day are rendered.
C10_AllZeroFails ==
    (Built /\ pc \in {"done", "error"} /\ \A i \in 1..Len(df) : df[i].Withdrawal = 0) =>
      (err /\ out.highest = <<>> /\ out.max_day = <<>>)

\* C10 amended: on a ledger where every withdrawal is 0 no error is reported,
\* the maximum-single-withdrawal query renders nothing, and the
\* maximum-withdrawal-day query renders the ledger's earliest date with sum 0.
C10_AllZeroSilent ==
    AllZeroInsights =>
      /\ ~err
      /\ out.highest = <<>>
      /\ out.max_day = <<[max_day |-> EarliestDate, max_amount |-> 0]>>

C10_Witness ==
    /\ AllZeroInsights
    /\ Len(df) >= 2
    /\ FirstDate # LastDate

====
